---- MODULE Spec2Model ----
(***************************************************************************)
(* Model of src/server.js: the catch-all handler app.get("*") that turns a *)
(* request path into exactly one response (page, not-found, redirect or    *)
(* error document).  One request is followed from its arrival through the  *)
(* settling of its preload promises to the promise callbacks that render   *)
(* and send the response.                                                  *)
(***************************************************************************)
EXTENDS Integers, Sequences, FiniteSets, TLC

(***************************************************************************)
(* Bounds of the model.                                                    *)
(***************************************************************************)
\* longest matched route chain (root to leaf) a request is given
MaxChain == 2
\* longest asset list a request is given when the asset selection is explored
MaxAssets == 3
\* the requests handled concurrently when their interleaving is explored
NumRequests == 2

(***************************************************************************)
(* Values.  A missing number (context.status, err.statusCode: undefined)   *)
(* is 0 and a missing string (context.url) is "": both are falsy in the    *)
(* code's `||` and `if`, exactly like undefined.                           *)
(***************************************************************************)
NoStatus == 0
NoUrl == ""

\* seo fields and values of the route table; Unset marks a field a route
\* does not define
Fields == {"title", "description"}
Vals == {"A", "B"}
Unset == "unset"
SeoObjects == [Fields -> Vals \cup {Unset}]
EmptySeo == [f \in Fields |-> Unset]

\* a route definition as far as the handler reads it: its seo object
\* (_.get(r, "seo", {})) and whether it declares a preload step
RouteDefs == [seo : SeoObjects, preload : BOOLEAN]

RECURSIVE SeqsUpTo(_, _)
SeqsUpTo(S, n) ==
  IF n = 0 THEN {<<>>}
  ELSE LET shorter == SeqsUpTo(S, n - 1)
       IN  shorter \cup {Append(s, x) : s \in {t \in shorter : Len(t) = n - 1}, x \in S}

\* the chains getRouteFromPath can hand to the handler
Chains == SeqsUpTo(RouteDefs, MaxChain)

(***************************************************************************)
(* Asset paths are sequences of characters, so that split("/").pop(),      *)
(* _.startsWith and indexOf are computed as the code computes them.        *)
(***************************************************************************)
Slash == "/"
ModPrefix == <<"m", "o", "d", "-">>
WorkerPrefix == <<"s", "e", "r", "v", "i", "c", "e", "-", "w", "o", "r", "k", "e", "r", ".", "j", "s">>
CssExt == <<".", "c", "s", "s">>
JsExt == <<".", "j", "s">>

\* _.startsWith(s, p)
StartsWith(s, p) ==
  /\ Len(p) <= Len(s)
  /\ SubSeq(s, 1, Len(p)) = p

\* _.endsWith(s, p)
EndsWith(s, p) ==
  /\ Len(p) <= Len(s)
  /\ SubSeq(s, Len(s) - Len(p) + 1, Len(s)) = p

\* s.indexOf(p) !== -1 : p occurs in s (the empty string occurs in every string)
Contains(s, p) ==
  \E i \in 1..(Len(s) - Len(p) + 1) : SubSeq(s, i, i + Len(p) - 1) = p

\* path.split("/").pop() : what follows the last "/"
FileName(p) ==
  LET cuts == {i \in 1..Len(p) : p[i] = Slash}
  IN  IF cuts = {} THEN p
      ELSE LET last == CHOOSE i \in cuts : \A j \in cuts : j <= i
           IN  SubSeq(p, last + 1, Len(p))

\* extractFilesFromAssets(assets, ext): the paths of that extension, in order
ExtractFilesFromAssets(assets, ext) ==
  SelectSeq(assets, LAMBDA p : EndsWith(p, ext))

\* currentRouteCss = _.filter(allCss, ...): every stylesheet, in order, but
\* the "mod-" ones whose file name does not contain mod
CurrentRouteCss(allCss, mod) ==
  SelectSeq(allCss, LAMBDA css :
     ~(StartsWith(FileName(css), ModPrefix) /\ ~Contains(FileName(css), mod)))

\* a faulty script selection that forgets the service worker
CurrentRouteJsKeepingWorker(allJs) ==
  SelectSeq(allJs, LAMBDA js : ~StartsWith(FileName(js), ModPrefix))

\* currentRouteJs = _.filter(allJs, ...): every script, in order, but the
\* "mod-" ones and the service worker
CurrentRouteJs(allJs) ==
  SelectSeq(allJs, LAMBDA js :
     ~StartsWith(FileName(js), ModPrefix) /\ ~StartsWith(FileName(js), WorkerPrefix))

\* module ids getModuleByUrl resolves; the empty string when no route matches
ModA == <<"a">>
ModB == <<"b">>
NoModule == <<>>
Modules == {ModA, ModB}

\* the asset list the build hands to the request (req.assets)
BuildAssets ==
  << <<"/", "m", "a", "i", "n", ".", "c", "s", "s">>,
     <<"/", "c", "/", "m", "o", "d", "-", "a", ".", "c", "s", "s">>,
     <<"/", "c", "/", "m", "o", "d", "-", "b", ".", "c", "s", "s">>,
     <<"/", "m", "a", "i", "n", ".", "j", "s">>,
     <<"/", "m", "o", "d", "-", "a", ".", "j", "s">>,
     <<"/", "s", "e", "r", "v", "i", "c", "e", "-", "w", "o", "r", "k", "e", "r", ".", "j", "s">> >>

\* the asset paths asset lists are drawn from: a plain and two module
\* stylesheets (modules "a" and "ab"), a plain and a module script, and the
\* service worker
AssetPaths ==
  { <<"/", "m", "a", "i", "n", ".", "c", "s", "s">>,
    <<"/", "c", "/", "m", "o", "d", "-", "a", ".", "c", "s", "s">>,
    <<"/", "c", "/", "m", "o", "d", "-", "a", "b", ".", "c", "s", "s">>,
    <<"/", "m", "a", "i", "n", ".", "j", "s">>,
    <<"/", "m", "o", "d", "-", "a", ".", "j", "s">>,
    <<"/", "j", "/", "s", "e", "r", "v", "i", "c", "e", "-", "w", "o", "r", "k", "e", "r", ".", "j", "s">> }

\* the asset lists (req.assets) of the asset exploration
AssetLists == SeqsUpTo(AssetPaths, MaxAssets)

(***************************************************************************)
(* Errors, views, documents and responses.                                 *)
(***************************************************************************)
\* statuses a thrown or rejected value can carry (err.statusCode)
ErrStatuses == {NoStatus, 503}

\* a thrown or rejected value: where it was raised (origin: "collect" while
\* the preload promises are collected, "step" by preload step `step`,
\* "render" by the page or not-found render) and the status it carries
Errors ==
  [origin : {"collect", "step", "render"}, step : 0..(MaxChain + 1), statusCode : ErrStatuses]

NoError == [origin |-> "none", step |-> 0, statusCode |-> NoStatus]

\* a view tree (routerComponent); an error view shows the error's status
NoView == [kind |-> "none", statusCode |-> NoStatus]
PageView == [kind |-> "page", statusCode |-> NoStatus]
NotFoundView == [kind |-> "notfound", statusCode |-> NoStatus]

\* getErrorComponent(err, store): the error gets status 500 when it has none,
\* and the error view of renderErrorPage is returned
GetErrorComponent(err) ==
  [kind |-> "error",
   statusCode |-> IF err.statusCode # NoStatus THEN err.statusCode ELSE 500]

\* the seo prop of <Html>: given with a metadata object, or not passed
SeoProp(seo) == [given |-> TRUE, value |-> seo]
NoSeoProp == [given |-> FALSE, value |-> EmptySeo]

\* ReactDOMServer.renderToStaticMarkup(<Html stylesheets scripts seo>{view}</Html>)
Html(stylesheets, scripts, seo, children) ==
  [composed |-> TRUE, stylesheets |-> stylesheets, scripts |-> scripts,
   seo |-> seo, children |-> children]

NoDocument ==
  [composed |-> FALSE, stylesheets |-> <<>>, scripts |-> <<>>,
   seo |-> NoSeoProp, children |-> NoView]

\* res.status(statusCode).send(`<!DOCTYPE html>${html}`)
Send(statusCode, html) ==
  [kind |-> "send", status |-> statusCode, location |-> NoUrl,
   doctype |-> TRUE, body |-> html]

\* res.status(statusCode).redirect(url): Express's res.redirect(url), called
\* with the url alone, sets the status of the response to 302 itself, whatever
\* res.status() had set before, and sends no document
Redirect(statusCode, url) ==
  [kind |-> "redirect", status |-> 302, location |-> url,
   doctype |-> FALSE, body |-> NoDocument]

\* the outcome a response stands for
OutcomeOf(resp) ==
  IF resp.kind = "redirect" THEN "Redirect"
  ELSE IF resp.body.children.kind = "error" THEN "Error"
  ELSE IF resp.body.children.kind = "notfound" THEN "NotFound"
  ELSE "Page"

(***************************************************************************)
(* SEO aggregation.                                                        *)
(***************************************************************************)
\* _.defaults({}, first, second): a field takes its value from the first
\* source that defines it
DefaultsSwapped(first, second) ==
  [f \in Fields |-> IF second[f] # Unset THEN second[f] ELSE first[f]]

Defaults(first, second) ==
  [f \in Fields |-> IF first[f] # Unset THEN first[f] ELSE second[f]]

\* _.each(currentRoutes, r => { seoDetails = _.defaults({}, r.seo, seoDetails) })
\* started from seoDetails = {}
RECURSIVE AggregateSeo(_, _)
AggregateSeo(chain, seoDetails) ==
  IF chain = <<>> THEN seoDetails
  ELSE AggregateSeo(Tail(chain), Defaults(Head(chain).seo, seoDetails))

(***************************************************************************)
(* The request context and what the renders do to it.                      *)
(***************************************************************************)
\* const context = {storage, api, pathname}: no status, no url
NewContext == [status |-> NoStatus, url |-> NoUrl]

\* statusCode = context.status || 200
StatusAlways200(context) == 200

StatusCodeOf(context) ==
  IF context.status # NoStatus THEN context.status ELSE 200

\* what renderRoutesByUrl can do: return the page view, having set a status
\* or a redirect target (with or without a status) on the context, or throw
PageRenders ==
  [throws : {FALSE}, status : {NoStatus, 403}, url : {NoUrl}, err : {NoError}]
  \cup [throws : {FALSE}, status : {NoStatus, 301}, url : {"/login"}, err : {NoError}]
  \cup [throws : {TRUE}, status : {NoStatus}, url : {NoUrl},
        err : [origin : {"render"}, step : {0}, statusCode : ErrStatuses]]

\* what renderNotFoundPage can do: return the not-found view, having set
\* status 404 on the context, or throw
NotFoundRenders ==
  [throws : {FALSE}, status : {404}, url : {NoUrl}, err : {NoError}]
  \cup [throws : {TRUE}, status : {NoStatus}, url : {NoUrl},
        err : [origin : {"render"}, step : {0}, statusCode : ErrStatuses]]

\* the renders open to the success callback: routes matched or not
RendersFor(chain) == IF chain = <<>> THEN NotFoundRenders ELSE PageRenders

\* the view the render returns
ViewFor(chain) == IF chain = <<>> THEN NotFoundView ELSE PageView

(***************************************************************************)
(* Promises.                                                               *)
(***************************************************************************)
Pending == [state |-> "pending", err |-> NoError]
Fulfilled == [state |-> "fulfilled", err |-> NoError]
Rejected(err) == [state |-> "rejected", err |-> err]

\* the number of routes of the chain that declare a preload step
RECURSIVE CountPreload(_)
CountPreload(chain) ==
  IF chain = <<>> THEN 0
  ELSE (IF Head(chain).preload THEN 1 ELSE 0) + CountPreload(Tail(chain))

\* getPreloadDataPromises({routes, storage, api, store}): the preload step of
\* every route that declares one is started; one pending promise for each
GetPreloadDataPromises(chain) ==
  [i \in 1..CountPreload(chain) |-> Pending]

\* getPreloadDataPromises can throw only while it starts a preload step
CanThrowCollecting(chain) == CountPreload(chain) > 0

\* a faulty aggregate that is pending even for an empty list
NewPromiseAllPending(promises) == Pending

\* Promise.all(promises) at its creation: fulfilled for an empty list
NewPromiseAll(promises) ==
  IF promises = <<>> THEN Fulfilled ELSE Pending

\* a faulty aggregate that waits for every step and then succeeds whatever
\* the steps did
PromiseAllIgnoringRejections(all, promises, i) ==
  IF all.state # "pending" THEN all
  ELSE IF \A j \in 1..Len(promises) : promises[j].state # "pending" THEN Fulfilled
  ELSE all

\* the lowest step of the list that is rejected
FirstRejectedInList(promises) ==
  CHOOSE j \in 1..Len(promises) :
     /\ promises[j].state = "rejected"
     /\ \A k \in 1..(j - 1) : promises[k].state # "rejected"

\* a faulty aggregate that settles only once every step has settled, and is
\* then rejected with the error of the first rejected step of the list
PromiseAllWaiting(all, promises, i) ==
  IF all.state # "pending" THEN all
  ELSE IF \E j \in 1..Len(promises) : promises[j].state = "pending" THEN all
  ELSE IF \E j \in 1..Len(promises) : promises[j].state = "rejected"
    THEN Rejected(promises[FirstRejectedInList(promises)].err)
  ELSE Fulfilled

\* a faulty aggregate that is rejected at the first rejection, but with the
\* error of the lowest step of the list rejected so far, and that takes a
\* later rejection of a lower step over
PromiseAllInListOrder(all, promises, i) ==
  IF all.state = "fulfilled" THEN all
  ELSE IF \E j \in 1..Len(promises) : promises[j].state = "rejected"
    THEN Rejected(promises[FirstRejectedInList(promises)].err)
  ELSE IF \A j \in 1..Len(promises) : promises[j].state = "fulfilled" THEN Fulfilled
  ELSE all

\* Promise.all(promises) after step i has settled: a settled aggregate never
\* changes, the first rejection rejects it with that step's error, and it is
\* fulfilled once every step is
PromiseAll(all, promises, i) ==
  IF all.state # "pending" THEN all
  ELSE IF promises[i].state = "rejected" THEN Rejected(promises[i].err)
  ELSE IF \A j \in 1..Len(promises) : promises[j].state = "fulfilled" THEN Fulfilled
  ELSE all

\* a faulty chaining that drops the rejection of p
ThenDroppingRejection(all) == Pending

\* p.then(onFulfilled) with no rejection handler: a rejection of p is passed
\* on, and a fulfilment leaves the new promise pending until onFulfilled ran
Then(all) ==
  IF all.state = "rejected" THEN all ELSE Pending

(***************************************************************************)
(* The bodies of the handler's callbacks.                                  *)
(***************************************************************************)
\* a faulty error branch that hands the aggregated seo to <Html>
ErrorResponseWithSeo(err, statusCode, css, js, seoDetails) ==
  Send(statusCode, Html(css, js, SeoProp(seoDetails), GetErrorComponent(err)))

\* the body of .catch(err => ...) and of catch (err) {...}: the error view in
\* <Html stylesheets scripts> with no seo prop, sent with statusCode
ErrorResponse(err, statusCode, css, js, seoDetails) ==
  Send(statusCode, Html(css, js, NoSeoProp, GetErrorComponent(err)))

\* a faulty error branch that renders the error view and sends nothing
NoErrorResponses(err, statusCode, css, js, seoDetails) == <<>>

\* the responses the error branches emit
ErrorResponses(err, statusCode, css, js, seoDetails) ==
  <<ErrorResponse(err, statusCode, css, js, seoDetails)>>

\* a faulty dispatch whose redirect branch does not return
DispatchFallingThrough(context, css, js, seoDetails, view) ==
  LET code == StatusCodeOf(context)
      page == Send(code, Html(css, js, SeoProp(seoDetails), view))
  IN  [statusCode |-> code,
       responses |-> IF context.url # NoUrl
                       THEN <<Redirect(code, context.url), page>> ELSE <<page>>,
       composed |-> 1]

\* the end of the success callback, after the render returned:
\* statusCode = context.status || 200, then either the redirect or the
\* composed document is sent
Dispatch(context, css, js, seoDetails, view) ==
  LET code == StatusCodeOf(context)
  IN  IF context.url # NoUrl
        THEN [statusCode |-> code,
              responses |-> <<Redirect(code, context.url)>>,
              composed |-> 0]
        ELSE [statusCode |-> code,
              responses |-> <<Send(code, Html(css, js, SeoProp(seoDetails), view))>>,
              composed |-> 1]

(***************************************************************************)
(* State of one catch-all request.                                         *)
(***************************************************************************)
VARIABLES
  pc,               \* "idle": not arrived; "pending": waits for a callback; "done"
  currentRoutes,    \* the matched chain, root to leaf
  mod,              \* the module id of the path
  currentRouteCss,  \* the stylesheets selected for the request
  currentRouteJs,   \* the scripts selected for the request
  context,          \* the request context: status and url
  statusCode,       \* the handler's statusCode
  seoDetails,       \* the handler's seoDetails
  routerComponent,  \* the view tree rendered last
  promises,         \* the preload promises
  all,              \* Promise.all(promises)
  chained,          \* Promise.all(promises).then(...)
  responses,        \* the responses written to res, in order
  composeCalls,     \* the calls of renderToStaticMarkup
  rendered,         \* what the page or not-found render did, once it ran
  caught,           \* the error an error branch received, once one ran
  assets,           \* req.assets, the asset list of the request
  rejections,       \* the preload steps rejected so far, in the order they were
  routeTable,       \* Routes, the route table shared by every request
  frames,           \* the handler's local bindings, one frame per invocation
  calls             \* per concurrent request: its path, promises and responses

vars ==
  <<pc, currentRoutes, mod, currentRouteCss, currentRouteJs, context, statusCode,
    seoDetails, routerComponent, promises, all, chained, responses, composeCalls,
    rendered, caught, assets, rejections, routeTable, frames, calls>>

NoRender == [ran |-> FALSE, throws |-> FALSE, status |-> NoStatus, url |-> NoUrl, err |-> NoError]
Ran(r) == [ran |-> TRUE, throws |-> r.throws, status |-> r.status, url |-> r.url, err |-> r.err]

\* the state of the concurrent requests
pairVars == <<routeTable, frames, calls>>

\* the state of the request followed alone
soloVars ==
  <<pc, currentRoutes, mod, currentRouteCss, currentRouteJs, context, statusCode,
    seoDetails, routerComponent, promises, all, chained, responses, composeCalls,
    rendered, caught, assets, rejections>>

Requests == 1..NumRequests

\* the paths requested concurrently
Paths == {"/home", "/about", "/missing"}

\* Routes: what the route table resolves each path to, the chain of
\* getRouteFromPath and the module id of getModuleByUrl
RouteTable ==
  [p \in Paths |->
     IF p = "/home"
       THEN [chain |-> << [seo |-> [title |-> "A", description |-> Unset], preload |-> FALSE],
                          [seo |-> [title |-> Unset, description |-> "B"], preload |-> TRUE] >>,
             mod |-> ModA]
     ELSE IF p = "/about"
       THEN [chain |-> << [seo |-> [title |-> "B", description |-> Unset], preload |-> FALSE] >>,
             mod |-> ModB]
     ELSE [chain |-> <<>>, mod |-> NoModule]]

\* the bindings the handler declares with let and const, as they are before
\* the try block
NewFrame ==
  [currentRoutes |-> <<>>, mod |-> NoModule, css |-> <<>>, js |-> <<>>,
   context |-> NewContext, statusCode |-> 200, seoDetails |-> EmptySeo,
   routerComponent |-> NoView]

\* a request that has not arrived
NewCall ==
  [pc |-> "idle", path |-> "", promises |-> <<>>, all |-> Pending, chained |-> Pending,
   responses |-> <<>>, rendered |-> NoRender, caught |-> NoError]

\* faulty bindings declared once at module level and shared by every request
FrameShared(r) == 1

\* the frame of an invocation of the handler: its let and const bindings are
\* created anew for every request
FrameOf(r) == r

\* the bindings request r reads and writes
Frame(r) == frames[FrameOf(r)]

Init ==
  /\ pc = "idle"
  /\ currentRoutes = <<>>
  /\ mod = NoModule
  /\ currentRouteCss = <<>>
  /\ currentRouteJs = <<>>
  /\ context = NewContext
  /\ statusCode = 200
  /\ seoDetails = EmptySeo
  /\ routerComponent = NoView
  /\ promises = <<>>
  /\ all = Pending
  /\ chained = Pending
  /\ responses = <<>>
  /\ composeCalls = 0
  /\ rendered = NoRender
  /\ caught = NoError
  /\ assets = <<>>
  /\ rejections = <<>>
  /\ routeTable = RouteTable
  /\ frames = [r \in Requests |-> NewFrame]
  /\ calls = [r \in Requests |-> NewCall]

\* the module id that goes with a chain: none when no route matches
ModulesFor(chain) == IF chain = <<>> THEN {NoModule} ELSE Modules

\* the synchronous part of the handler up to the try block
Arrive(list, chain, m) ==
  /\ pc = "idle"
  /\ assets' = list
  /\ currentRoutes' = chain
  /\ mod' = m
  /\ currentRouteCss' = CurrentRouteCss(ExtractFilesFromAssets(list, CssExt), m)
  /\ currentRouteJs' = CurrentRouteJs(ExtractFilesFromAssets(list, JsExt))
  /\ context' = NewContext
  /\ statusCode' = 200
  /\ seoDetails' = EmptySeo
  /\ UNCHANGED <<rendered, rejections>>
  /\ UNCHANGED pairVars

\* app.get("*"): getPreloadDataPromises returns, Promise.all(...).then(...)
\* .catch(...) is set up and the handler returns
HandleRequest(list, chain, m) ==
  /\ Arrive(list, chain, m)
  /\ promises' = GetPreloadDataPromises(chain)
  /\ all' = NewPromiseAll(promises')
  /\ chained' = Then(all')
  /\ pc' = "pending"
  /\ UNCHANGED <<routerComponent, responses, composeCalls, caught>>

\* app.get("*"): getPreloadDataPromises throws err, the catch block of the
\* handler sends the error document
HandleRequestThrowing(list, chain, m, err) ==
  /\ CanThrowCollecting(chain)
  /\ Arrive(list, chain, m)
  /\ routerComponent' = GetErrorComponent(err)
  /\ responses' = responses \o ErrorResponses(err, statusCode', currentRouteCss', currentRouteJs', seoDetails')
  /\ composeCalls' = composeCalls + 1
  /\ caught' = err
  /\ pc' = "done"
  /\ UNCHANGED <<promises, all, chained>>

\* preload step i settles, and Promise.all and its .then promise follow
Settle(i, outcome) ==
  /\ pc # "idle"
  /\ i \in 1..Len(promises)
  /\ promises[i].state = "pending"
  /\ promises' = [promises EXCEPT ![i] = outcome]
  /\ all' = PromiseAll(all, promises', i)
  /\ chained' = IF chained.state = "pending" THEN Then(all') ELSE chained
  /\ rejections' = IF outcome.state = "rejected" THEN Append(rejections, i) ELSE rejections
  /\ UNCHANGED <<pc, currentRoutes, mod, currentRouteCss, currentRouteJs, context,
                 statusCode, seoDetails, routerComponent, responses, composeCalls,
                 rendered, caught, assets>>
  /\ UNCHANGED pairVars

FulfilStep(i) == Settle(i, Fulfilled)

RejectStep(i, status) ==
  Settle(i, Rejected([origin |-> "step", step |-> i, statusCode |-> status]))

\* a faulty scheduling that runs the success callback without waiting for
\* Promise.all
ThenReadyEarly ==
  /\ pc = "pending"
  /\ chained.state = "pending"

\* the success callback can run: Promise.all is fulfilled and it did not run yet
ThenReady ==
  /\ pc = "pending"
  /\ all.state = "fulfilled"
  /\ chained.state = "pending"

\* the callback of .then(): seo aggregation, the render, and the dispatch;
\* a render that throws rejects the promise .catch() is attached to
ThenCallback(r) ==
  /\ ThenReady
  /\ r \in RendersFor(currentRoutes)
  /\ seoDetails' = AggregateSeo(currentRoutes, seoDetails)
  /\ rendered' = Ran(r)
  /\ IF r.throws
       THEN /\ chained' = Rejected(r.err)
            /\ UNCHANGED <<pc, context, statusCode, routerComponent, responses, composeCalls>>
       ELSE /\ context' = [status |-> r.status, url |-> r.url]
            /\ routerComponent' = ViewFor(currentRoutes)
            /\ LET d == Dispatch(context', currentRouteCss, currentRouteJs,
                                 seoDetails', routerComponent')
               IN  /\ statusCode' = d.statusCode
                   /\ responses' = responses \o d.responses
                   /\ composeCalls' = composeCalls + d.composed
            /\ chained' = Fulfilled
            /\ pc' = "done"
  /\ UNCHANGED <<currentRoutes, mod, currentRouteCss, currentRouteJs, promises, all,
                 caught, assets, rejections>>
  /\ UNCHANGED pairVars

\* the error callback can run: the promise it is attached to is rejected
CatchReady ==
  /\ pc = "pending"
  /\ chained.state = "rejected"

\* the callback of .catch(): the error document is sent with statusCode
CatchCallback ==
  /\ CatchReady
  /\ routerComponent' = GetErrorComponent(chained.err)
  /\ responses' = responses \o ErrorResponses(chained.err, statusCode, currentRouteCss,
                                              currentRouteJs, seoDetails)
  /\ composeCalls' = composeCalls + 1
  /\ caught' = chained.err
  /\ pc' = "done"
  /\ UNCHANGED <<currentRoutes, mod, currentRouteCss, currentRouteJs, context, statusCode,
                 seoDetails, promises, all, chained, rendered, assets, rejections>>
  /\ UNCHANGED pairVars

\* a request can arrive
Idle == pc = "idle"

\* the steps of a request once it has arrived
Progress ==
  \/ \E i \in 1..Len(promises) : FulfilStep(i)
  \/ \E i \in 1..Len(promises) : \E status \in ErrStatuses : RejectStep(i, status)
  \/ ThenReady /\ \E r \in RendersFor(currentRoutes) : ThenCallback(r)
  \/ CatchCallback

\* an error thrown while the preload promises are collected
CollectError(status) == [origin |-> "collect", step |-> 0, statusCode |-> status]

Next ==
  \/ Idle /\ \E chain \in Chains : \E m \in ModulesFor(chain) :
       HandleRequest(BuildAssets, chain, m)
  \/ Idle /\ \E chain \in Chains : \E m \in ModulesFor(chain) : \E status \in ErrStatuses :
       HandleRequestThrowing(BuildAssets, chain, m, CollectError(status))
  \/ Progress

Spec == Init /\ [][Next]_vars

(***************************************************************************)
(* The asset exploration: the same handler, given every asset list up to   *)
(* MaxAssets paths and the chains of at most one route.                    *)
(***************************************************************************)
ShortChains == SeqsUpTo(RouteDefs, 1)

NextAssets ==
  \/ Idle /\ \E list \in AssetLists : \E chain \in ShortChains : \E m \in ModulesFor(chain) :
       HandleRequest(list, chain, m)
  \/ Idle /\ \E list \in AssetLists : \E chain \in ShortChains : \E m \in ModulesFor(chain) :
       \E status \in ErrStatuses :
          HandleRequestThrowing(list, chain, m, CollectError(status))
  \/ Progress

SpecAssets == Init /\ [][NextAssets]_vars

(***************************************************************************)
(* The callbacks of settled promises are run by the event loop: a callback *)
(* that is ready does run.  Nothing makes a preload step settle.           *)
(***************************************************************************)
RunThen == \E r \in RendersFor(currentRoutes) : ThenCallback(r)

FairSpec == Spec /\ WF_vars(RunThen) /\ WF_vars(CatchCallback)

(***************************************************************************)
(* Concurrent requests: the same handler, invoked for NumRequests requests *)
(* whose callbacks interleave.  Each invocation reads the shared route     *)
(* table and works on its own frame of bindings.                           *)
(***************************************************************************)
\* app.get("*") for request r: the synchronous part of the handler up to the
\* try block, on the frame of the invocation
PairFrame(path) ==
  [NewFrame EXCEPT
     !.currentRoutes = routeTable[path].chain,
     !.mod = routeTable[path].mod,
     !.css = CurrentRouteCss(ExtractFilesFromAssets(BuildAssets, CssExt), routeTable[path].mod),
     !.js = CurrentRouteJs(ExtractFilesFromAssets(BuildAssets, JsExt))]

\* app.get("*") for request r: getPreloadDataPromises returns and the handler
\* returns with its callbacks attached
PairHandleRequest(r, path) ==
  /\ calls[r].pc = "idle"
  /\ frames' = [frames EXCEPT ![FrameOf(r)] = PairFrame(path)]
  /\ LET ps == GetPreloadDataPromises(routeTable[path].chain)
     IN  calls' = [calls EXCEPT ![r] =
            [@ EXCEPT !.pc = "pending", !.path = path, !.promises = ps,
                      !.all = NewPromiseAll(ps), !.chained = Then(NewPromiseAll(ps))]]
  /\ UNCHANGED routeTable
  /\ UNCHANGED soloVars

\* app.get("*") for request r: getPreloadDataPromises throws, the catch block
\* sends the error document
PairHandleRequestThrowing(r, path, err) ==
  /\ calls[r].pc = "idle"
  /\ CanThrowCollecting(routeTable[path].chain)
  /\ LET f == PairFrame(path)
     IN  /\ frames' = [frames EXCEPT ![FrameOf(r)] =
                 [f EXCEPT !.routerComponent = GetErrorComponent(err)]]
         /\ calls' = [calls EXCEPT ![r] =
                 [@ EXCEPT !.pc = "done", !.path = path, !.caught = err,
                           !.responses = ErrorResponses(err, f.statusCode, f.css, f.js,
                                                        f.seoDetails)]]
  /\ UNCHANGED routeTable
  /\ UNCHANGED soloVars

\* preload step i of request r settles
PairSettle(r, i, outcome) ==
  /\ calls[r].pc # "idle"
  /\ i \in 1..Len(calls[r].promises)
  /\ calls[r].promises[i].state = "pending"
  /\ LET ps == [calls[r].promises EXCEPT ![i] = outcome]
         a == PromiseAll(calls[r].all, ps, i)
     IN  calls' = [calls EXCEPT ![r] =
            [@ EXCEPT !.promises = ps, !.all = a,
                      !.chained = IF @.state = "pending" THEN Then(a) ELSE @]]
  /\ UNCHANGED <<routeTable, frames>>
  /\ UNCHANGED soloVars

\* the success callback of request r can run
PairThenReady(r) ==
  /\ calls[r].pc = "pending"
  /\ calls[r].all.state = "fulfilled"
  /\ calls[r].chained.state = "pending"

\* the callback of .then() of request r, on the bindings of its invocation
PairThenCallback(r, render) ==
  /\ PairThenReady(r)
  /\ render \in RendersFor(Frame(r).currentRoutes)
  /\ LET f == Frame(r)
         seo == AggregateSeo(f.currentRoutes, f.seoDetails)
         ctx == [status |-> render.status, url |-> render.url]
         view == ViewFor(f.currentRoutes)
         d == Dispatch(ctx, f.css, f.js, seo, view)
     IN  IF render.throws
           THEN /\ frames' = [frames EXCEPT ![FrameOf(r)] = [f EXCEPT !.seoDetails = seo]]
                /\ calls' = [calls EXCEPT ![r] =
                       [@ EXCEPT !.rendered = Ran(render), !.chained = Rejected(render.err)]]
           ELSE /\ frames' = [frames EXCEPT ![FrameOf(r)] =
                       [f EXCEPT !.seoDetails = seo, !.context = ctx,
                                 !.routerComponent = view, !.statusCode = d.statusCode]]
                /\ calls' = [calls EXCEPT ![r] =
                       [@ EXCEPT !.rendered = Ran(render), !.chained = Fulfilled,
                                 !.pc = "done", !.responses = @ \o d.responses]]
  /\ UNCHANGED routeTable
  /\ UNCHANGED soloVars

\* the callback of .catch() of request r
PairCatchCallback(r) ==
  /\ calls[r].pc = "pending"
  /\ calls[r].chained.state = "rejected"
  /\ LET f == Frame(r)
         err == calls[r].chained.err
     IN  /\ frames' = [frames EXCEPT ![FrameOf(r)] =
                 [f EXCEPT !.routerComponent = GetErrorComponent(err)]]
         /\ calls' = [calls EXCEPT ![r] =
                 [@ EXCEPT !.pc = "done", !.caught = err,
                           !.responses = @ \o ErrorResponses(err, f.statusCode, f.css, f.js,
                                                             f.seoDetails)]]
  /\ UNCHANGED routeTable
  /\ UNCHANGED soloVars

PairNext ==
  \E r \in Requests :
     \/ \E path \in Paths : PairHandleRequest(r, path)
     \/ \E path \in Paths : \E status \in ErrStatuses :
          PairHandleRequestThrowing(r, path, CollectError(status))
     \/ \E i \in 1..Len(calls[r].promises) : PairSettle(r, i, Fulfilled)
     \/ \E i \in 1..Len(calls[r].promises) : \E status \in ErrStatuses :
          PairSettle(r, i, Rejected([origin |-> "step", step |-> i, statusCode |-> status]))
     \/ PairThenReady(r) /\ \E render \in PageRenders \cup NotFoundRenders :
          PairThenCallback(r, render)
     \/ PairCatchCallback(r)

SpecPair == Init /\ [][PairNext]_vars

(***************************************************************************)
(* Properties.                                                             *)
(***************************************************************************)
\* no callback of the handler is left to run
NoCallbackReady == pc # "idle" /\ ~ThenReady /\ ~CatchReady

\* every preload step has settled
AllSettled == \A i \in 1..Len(promises) : promises[i].state # "pending"

\* some preload step was rejected
AnyStepRejected == \E i \in 1..Len(promises) : promises[i].state = "rejected"

\* a failure was raised: getPreloadDataPromises threw, a preload step was
\* rejected, or the page or not-found render threw
FailureRaised ==
  \/ caught.origin = "collect"
  \/ AnyStepRejected
  \/ rendered.throws

\* the page or not-found render ran and returned
RenderReturned == rendered.ran /\ ~rendered.throws

Outcomes == {"Page", "NotFound", "Redirect", "Error"}

\* C1: whatever the preload steps do (all succeed, some reject, collecting
\* them throws), whatever the render does (returns, sets a redirect target,
\* throws) and whether or not a route matched, the request never has two
\* responses, and once every preload step has settled and no callback is
\* left to run it has exactly one, standing for exactly one of the outcomes
\* Page, NotFound, Redirect, Error.
C1_ExactlyOneResponse ==
  /\ Len(responses) <= 1
  /\ (AllSettled /\ NoCallbackReady) =>
        /\ Len(responses) = 1
        /\ OutcomeOf(responses[1]) \in Outcomes

\* C1 witness: two preload steps succeeded, the page render threw, and the
\* one response of the request is there
C1_Witness ==
  /\ Len(promises) = 2
  /\ AllSettled
  /\ rendered.throws
  /\ NoCallbackReady
  /\ Len(responses) = 1

\* C2: once a failure was raised (a throw while the preload promises are
\* collected, a rejected preload step, a throw of the page or not-found
\* render) and no callback is left to run, the request has its response and
\* it is the error view.
C2_FailuresBecomeError ==
  (FailureRaised /\ NoCallbackReady) =>
     /\ Len(responses) = 1
     /\ OutcomeOf(responses[1]) = "Error"
     /\ routerComponent = responses[1].body.children

\* C2 witness: no route matched, the not-found render threw, and the error
\* view was sent
C2_Witness ==
  /\ currentRoutes = <<>>
  /\ rendered.throws
  /\ Len(responses) = 1
  /\ OutcomeOf(responses[1]) = "Error"

\* the status an error response is meant to have: the one the failure
\* carries, 500 when it carries none
ErrorStatusOf(err) == IF err.statusCode # NoStatus THEN err.statusCode ELSE 500

\* C3: every Error response caused by a rejected preload step or by a render
\* that threw has the status carried by the failure, and 500 when the failure
\* carries none.
C3_ErrorStatus ==
  \A i \in 1..Len(responses) :
     (OutcomeOf(responses[i]) = "Error" /\ caught.origin \in {"step", "render"}) =>
        responses[i].status = ErrorStatusOf(caught)

C5_PreloadFailureIsError ==
  AnyStepRejected =>
     /\ ~rendered.ran
     /\ routerComponent.kind \notin {"page", "notfound"}
     /\ \A i \in 1..Len(responses) : OutcomeOf(responses[i]) = "Error"
     /\ NoCallbackReady => Len(responses) = 1

\* C5 witness: the first preload step succeeded, the second was rejected, and
\* the error view was sent
C5_Witness ==
  /\ Len(promises) = 2
  /\ promises[1].state = "fulfilled"
  /\ promises[2].state = "rejected"
  /\ Len(responses) = 1
  /\ OutcomeOf(responses[1]) = "Error"

\* C6: when a route matched, the preload succeeded and the page render set a
\* redirect target, the response is a redirect to that target whose status is
\* the status set on the context, 302 when none was set.
C6_RedirectStatus ==
  (currentRoutes # <<>> /\ RenderReturned /\ rendered.url # NoUrl) =>
     /\ Len(responses) = 1
     /\ responses[1].kind = "redirect"
     /\ responses[1].location = rendered.url
     /\ responses[1].status = IF rendered.status # NoStatus THEN rendered.status ELSE 302

\* C7: when a redirect was sent, renderToStaticMarkup was never called and no
\* response of the request carries a composed document.
C7_RedirectHasNoDocument ==
  (\E i \in 1..Len(responses) : responses[i].kind = "redirect") =>
     /\ composeCalls = 0
     /\ \A j \in 1..Len(responses) : ~responses[j].body.composed /\ ~responses[j].doctype

\* C7 witness: the page render of a matched route set a redirect target, and
\* the redirect to it was sent
C7_Witness ==
  /\ routerComponent = PageView
  /\ context.url = "/login"
  /\ Len(responses) = 1
  /\ responses[1].kind = "redirect"
  /\ responses[1].location = "/login"

\* C8: when a route matched, the preload succeeded and the page render
\* returned without a redirect target, the one response is the page view and
\* its status is the status the render set on the context, 200 when it set
\* none.
C8_PageStatus ==
  (currentRoutes # <<>> /\ RenderReturned /\ rendered.url = NoUrl) =>
     /\ Len(responses) = 1
     /\ OutcomeOf(responses[1]) = "Page"
     /\ responses[1].body.children = PageView
     /\ responses[1].status = IF rendered.status # NoStatus THEN rendered.status ELSE 200

\* C8 witness: a page was sent with the status 403 its render had set
C8_Witness ==
  /\ currentRoutes # <<>>
  /\ RenderReturned
  /\ rendered.status = 403
  /\ Len(responses) = 1
  /\ OutcomeOf(responses[1]) = "Page"

\* the entries of the chain that define field f
Defining(chain, f) == {i \in 1..Len(chain) : chain[i].seo[f] # Unset}

\* the deepest entry of the chain that defines field f
Deepest(chain, f) == CHOOSE i \in Defining(chain, f) : \A j \in Defining(chain, f) : j <= i

\* C9: once the success callback has aggregated the seo metadata, every field
\* holds the value of the deepest chain entry that defines it, a field no
\* entry defines is absent, the aggregate of the empty chain is the empty
\* object, and a page or not-found document carries that aggregate.
C9_SeoDeepestWins ==
  rendered.ran =>
     /\ \A f \in Fields :
           seoDetails[f] = IF Defining(currentRoutes, f) = {} THEN Unset
                           ELSE currentRoutes[Deepest(currentRoutes, f)].seo[f]
     /\ currentRoutes = <<>> => seoDetails = EmptySeo
     /\ \A i \in 1..Len(responses) :
           OutcomeOf(responses[i]) \in {"Page", "NotFound"} =>
              responses[i].body.seo = SeoProp(seoDetails)

\* C9 witness: root {title A, description B}, leaf {title B}: the page got
\* {title B, description B}
C9_Witness ==
  /\ rendered.ran
  /\ Len(currentRoutes) = 2
  /\ currentRoutes[1].seo = [title |-> "A", description |-> "B"]
  /\ currentRoutes[2].seo = [title |-> "B", description |-> Unset]
  /\ seoDetails = [title |-> "B", description |-> "B"]
  /\ Len(responses) = 1
  /\ OutcomeOf(responses[1]) = "Page"

\* C10: every Error response, whichever branch sent it, carries the
\* stylesheets and scripts selected for the request, the ones a page gets, and
\* no seo metadata, also when the metadata had been aggregated already.
C10_ErrorDocument ==
  \A i \in 1..Len(responses) :
     OutcomeOf(responses[i]) = "Error" =>
        /\ responses[i].body.stylesheets =
             CurrentRouteCss(ExtractFilesFromAssets(assets, CssExt), mod)
        /\ responses[i].body.scripts =
             CurrentRouteJs(ExtractFilesFromAssets(assets, JsExt))
        /\ responses[i].body.stylesheets = currentRouteCss
        /\ responses[i].body.scripts = currentRouteJs
        /\ ~responses[i].body.seo.given

\* C10 witness: the page render threw after seo metadata had been aggregated,
\* and the error document was sent
C10_Witness ==
  /\ rendered.throws
  /\ seoDetails # EmptySeo
  /\ caught.origin = "render"
  /\ Len(responses) = 1
  /\ OutcomeOf(responses[1]) = "Error"
  /\ responses[1].body.stylesheets # <<>>

\* the module a "mod-" file name belongs to: what stands between "mod-" and
\* the first "." after it
ModuleOf(fileName) ==
  LET rest == SubSeq(fileName, Len(ModPrefix) + 1, Len(fileName))
      dots == {i \in 1..Len(rest) : rest[i] = "."}
  IN  IF dots = {} THEN rest
      ELSE SubSeq(rest, 1, (CHOOSE i \in dots : \A j \in dots : i <= j) - 1)

\* the stylesheets of a list that are namespaced to a module other than m
ForeignStylesheets(list, m) ==
  {i \in 1..Len(list) :
      /\ StartsWith(FileName(list[i]), ModPrefix)
      /\ ModuleOf(FileName(list[i])) # m}

\* C11: no response carries a "mod-" stylesheet of a module other than the
\* module id resolved for the request, whatever that id is, the empty id of
\* an unmatched path included.
C11_NoForeignModuleCss ==
  \A i \in 1..Len(responses) :
     ForeignStylesheets(responses[i].body.stylesheets, mod) = {}

\* a is b with some elements left out: same order, nothing added
RECURSIVE IsSubSeq(_, _)
IsSubSeq(a, b) ==
  IF a = <<>> THEN TRUE
  ELSE IF b = <<>> THEN FALSE
  ELSE IF Head(a) = Head(b) THEN IsSubSeq(Tail(a), Tail(b))
  ELSE IsSubSeq(a, Tail(b))

\* C12: the stylesheets and scripts selected for a request, and those of
\* every document sent, are sub-sequences of the css and js lists extracted
\* from the request's assets (same order, nothing added or repeated), no
\* script is a service worker, and an asset list without a file of an
\* extension gives the empty selection.
C12_OrderPreservingSelection ==
  LET allCss == ExtractFilesFromAssets(assets, CssExt)
      allJs == ExtractFilesFromAssets(assets, JsExt)
  IN  pc # "idle" =>
        /\ IsSubSeq(currentRouteCss, allCss)
        /\ IsSubSeq(currentRouteJs, allJs)
        /\ \A k \in 1..Len(currentRouteJs) :
              ~StartsWith(FileName(currentRouteJs[k]), WorkerPrefix)
        /\ allCss = <<>> => currentRouteCss = <<>>
        /\ allJs = <<>> => currentRouteJs = <<>>
        /\ \A i \in 1..Len(responses) :
              responses[i].body.composed =>
                 /\ responses[i].body.stylesheets = currentRouteCss
                 /\ responses[i].body.scripts = currentRouteJs

\* C12 witness: of the list main.js, service-worker.js, main.js a page got
\* the two main.js in their order and no stylesheet
C12_Witness ==
  /\ Len(assets) = 3
  /\ assets[1] = assets[3]
  /\ StartsWith(FileName(assets[2]), WorkerPrefix)
  /\ Len(currentRouteJs) = 2
  /\ currentRouteCss = <<>>
  /\ Len(responses) = 1
  /\ OutcomeOf(responses[1]) = "Page"
  /\ responses[1].body.scripts = <<assets[1], assets[3]>>

\* some preload step is still pending
SomePending == \E i \in 1..Len(promises) : promises[i].state = "pending"

C14_RenderAfterSettled ==
  [][(pc = "pending" /\ (seoDetails' # seoDetails \/ routerComponent' # routerComponent
                            \/ rendered' # rendered \/ responses' # responses
                            \/ composeCalls' # composeCalls))
        => all.state # "pending"]_vars

\* C14 witness: two preload steps were fulfilled, then the seo metadata was
\* merged and the page sent
C14_Witness ==
  /\ Len(promises) = 2
  /\ all.state = "fulfilled"
  /\ rendered.ran
  /\ seoDetails # EmptySeo
  /\ Len(responses) = 1
  /\ OutcomeOf(responses[1]) = "Page"

\* C15: when preload steps fail, in whatever order, the aggregate failure is
\* the error of the step rejected first; the one error view rendered and the
\* one response sent show that error, and a later rejection changes neither.
C15_FirstFailureWins ==
  rejections # <<>> =>
     /\ all = Rejected(promises[rejections[1]].err)
     /\ Len(responses) <= 1
     /\ composeCalls <= 1
     /\ responses # <<>> =>
           /\ caught = promises[rejections[1]].err
           /\ caught.step = rejections[1]
           /\ routerComponent = GetErrorComponent(caught)
           /\ responses[1].body.children = routerComponent

\* C15 witness: step 2 failed first with no status, step 1 failed later with
\* status 503, and the response shows the error of step 2
C15_Witness ==
  /\ rejections = <<2, 1>>
  /\ promises[1].err.statusCode = 503
  /\ promises[2].err.statusCode = NoStatus
  /\ Len(responses) = 1
  /\ responses[1].body.children = GetErrorComponent(promises[2].err)

\* C16: once every preload step of a request has settled, the request gets
\* its response; and as long as a step is pending and none has failed, no
\* response is sent, so a step that never settles leaves the request without
\* a response for ever.
C16_ResponseIffSettled ==
  /\ (pc # "idle" /\ AllSettled) ~> (Len(responses) = 1)
  /\ []((pc # "idle" /\ SomePending /\ ~AnyStepRejected) => responses = <<>>)

\* C16 witness: two steps were fulfilled and the response, a redirect, came
C16_Witness ==
  /\ Len(promises) = 2
  /\ AllSettled
  /\ ~AnyStepRejected
  /\ Len(responses) = 1
  /\ OutcomeOf(responses[1]) = "Redirect"

\* C17: for a chain none of whose routes declares a preload step, the empty
\* chain included, no step is started, the aggregate promise is fulfilled
\* from the start, so that the success callback is ready as soon as the
\* handler returns, and an Error response can only come from a render that
\* threw.
C17_NoPreloadNoWait ==
  (pc # "idle" /\ CountPreload(currentRoutes) = 0) =>
     /\ promises = <<>>
     /\ all.state = "fulfilled"
     /\ caught.origin \notin {"collect", "step"}
     /\ responses = <<>> => ThenReady \/ CatchReady
     /\ \A i \in 1..Len(responses) :
           OutcomeOf(responses[i]) = "Error" => rendered.throws

\* C17 witness: the handler has just returned for a chain of two routes
\* without preload step, and the success callback is ready
C17_Witness ==
  /\ Len(currentRoutes) = 2
  /\ CountPreload(currentRoutes) = 0
  /\ ThenReady
  /\ ~rendered.ran
  /\ responses = <<>>

\* the route the shared table resolves the path of request r to
OwnRoute(r) == RouteTable[calls[r].path]

\* the context the render of request r itself left behind
OwnContext(r) ==
  IF calls[r].rendered.ran /\ ~calls[r].rendered.throws
    THEN [status |-> calls[r].rendered.status, url |-> calls[r].rendered.url]
    ELSE NewContext

\* the SEO metadata of the chain request r itself matched
OwnSeo(r) ==
  IF calls[r].rendered.ran THEN AggregateSeo(OwnRoute(r).chain, EmptySeo) ELSE EmptySeo

\* the responses request r is due, from its own path, render and failure alone
OwnResponses(r) ==
  LET css == CurrentRouteCss(ExtractFilesFromAssets(BuildAssets, CssExt), OwnRoute(r).mod)
      js == CurrentRouteJs(ExtractFilesFromAssets(BuildAssets, JsExt))
  IN  IF calls[r].pc # "done" THEN <<>>
      ELSE IF calls[r].caught # NoError
        THEN ErrorResponses(calls[r].caught, 200, css, js, OwnSeo(r))
      ELSE Dispatch(OwnContext(r), css, js, OwnSeo(r), ViewFor(OwnRoute(r).chain)).responses

\* what belongs to request r: its bindings, its promises and its responses
Owned(r) == <<Frame(r), calls[r]>>

\* request r works on its own chain, context, SEO accumulator and status, and
\* is answered from them
OwnsItsState(r) ==
  calls[r].pc # "idle" =>
     /\ Frame(r).currentRoutes = OwnRoute(r).chain
     /\ Frame(r).mod = OwnRoute(r).mod
     /\ Frame(r).context = OwnContext(r)
     /\ Frame(r).seoDetails = OwnSeo(r)
     /\ Frame(r).statusCode = StatusCodeOf(OwnContext(r))
     /\ calls[r].responses = OwnResponses(r)

\* a step changes what belongs to one request at most, and not the route table
StepOfOneRequest ==
  /\ routeTable' = routeTable
  /\ \A r1, r2 \in Requests :
        r1 # r2 => ~(Owned(r1)' # Owned(r1) /\ Owned(r2)' # Owned(r2))

\* C18: when several catch-all requests are handled concurrently and
\* interleave at their preload suspension points, each request has its own
\* context, matched chain, SEO accumulator, status and outcome, all of them
\* determined by its own path, render and failure; a redirect target or a
\* status set while rendering one request changes nothing of another
\* request; and the shared route table stays as it was.
C18_RequestsAreIsolated ==
  /\ [](routeTable = RouteTable /\ \A r \in Requests : OwnsItsState(r))
  /\ [][StepOfOneRequest]_vars

\* C18 witness: request 2, for /home, was suspended on its preload step and
\* has been answered with its page, status 200 and its own SEO metadata,
\* while request 1, for /about, set status 301 and a redirect target on its
\* context and was redirected
C18_Witness ==
  /\ calls[1].path = "/about"
  /\ calls[2].path = "/home"
  /\ Len(calls[2].promises) = 1
  /\ calls[1].pc = "done"
  /\ calls[2].pc = "done"
  /\ Frame(1).context = [status |-> 301, url |-> "/login"]
  /\ OutcomeOf(calls[1].responses[1]) = "Redirect"
  /\ calls[1].responses[1].location = "/login"
  /\ Frame(2).context = NewContext
  /\ OutcomeOf(calls[2].responses[1]) = "Page"
  /\ calls[2].responses[1].status = 200
  /\ calls[2].responses[1].body.seo = SeoProp([title |-> "A", description |-> "B"])

====
